---- MODULE Spec2Model ----
(***************************************************************************)
(* Earnings-reversal backtest: the NYSE trading-calendar adapter           *)
(* (src/src/ingestion/trading_calendar.py) and the Phase 1 pipeline        *)
(* (src/src/pipeline/phase1_smoke_test.py).                                *)
(*                                                                         *)
(* Dates are day numbers; day 0 is a Monday, so weekday(d) = d % 7 follows *)
(* datetime.weekday(): Monday = 0 ... Saturday = 5, Sunday = 6.            *)
(***************************************************************************)
EXTENDS Integers, Sequences, FiniteSets, TLC

\* ------------------------------------------------------------------------
\* Bounds of the model
\* ------------------------------------------------------------------------
\* last day number a caller passes to the adapter
MaxDay == 20
\* largest number of exchange holidays inside the calendar
MaxHolidays == 2
\* largest offset passed to next_trading_day / prev_trading_day
MaxOffset == 2
\* largest number of earnings events one run ingests
MaxEvents == 2

Days == 0..MaxDay

Min(S) == CHOOSE x \in S : \A y \in S : x <= y
Max(S) == CHOOSE x \in S : \A y \in S : x >= y

\* datetime.weekday() of a day number (also for days before day 0)
weekday(d) == (d + 700) % 7

\* EarningsSession values
BMO == "bmo"
AMC == "amc"
UNKNOWN == "unknown"
EarningsSession == {BMO, AMC, UNKNOWN}

VARIABLES
    sessions,           \* the oracle: the set of sessions of calendar XNYS
    rejectsNonSession,  \* the oracle raises for an argument that is not a session
    op,                 \* the adapter method called last
    arg_d,              \* its date argument
    arg_offset,         \* its offset argument
    arg_session,        \* its session argument
    ret,                \* what it returned
    pc,                 \* Phase1Pipeline.run: the step to execute next
    calendar_defect,    \* the pipeline's calendar attribute is a defective resolver
    earnings_events,    \* self.earnings_events (<<>> is the empty frame)
    daily_ohlcv,        \* self.daily_ohlcv
    event_windows,      \* self.event_windows
    date_order_ok,      \* the local date_order_ok that step 4 prints
    signals,            \* self.signals
    trades,             \* self.trades
    stats,              \* self.stats
    exports             \* the CSV files step 8 writes: name -> row count

calstate == <<sessions, rejectsNonSession>>
callvars == <<op, arg_d, arg_offset, arg_session, ret>>
pipevars == <<pc, calendar_defect, earnings_events, daily_ohlcv, event_windows,
              date_order_ok, signals, trades, stats, exports>>
vars == <<calstate, callvars, pipevars>>

\* ------------------------------------------------------------------------
\* The oracle (exchange_calendars calendar "XNYS").  Its bounds are its
\* first and last session.  Each query raises a ValueError for a date
\* outside the bounds; next_session / previous_session also raise one when
\* there is no later / earlier session, and, when rejectsNonSession, for an
\* argument that is not itself a session (NotSessionError is a ValueError).
\* ------------------------------------------------------------------------
first_session == Min(sessions)
last_session == Max(sessions)
date_oob(d) == d < first_session \/ d > last_session

is_session_raises(d) == date_oob(d)
is_session(d) == d \in sessions

next_session_raises(cur) ==
    \/ date_oob(cur)
    \/ rejectsNonSession /\ cur \notin sessions
    \/ cur = last_session
next_session(cur) == Min({s \in sessions : s > cur})

previous_session_raises(cur) ==
    \/ date_oob(cur)
    \/ rejectsNonSession /\ cur \notin sessions
    \/ cur = first_session
previous_session(cur) == Max({s \in sessions : s < cur})

\* ------------------------------------------------------------------------
\* TradingCalendar
\* ------------------------------------------------------------------------
\* is_trading_day: no handler around the oracle call, a ValueError propagates
is_trading_day_raises(d) == is_session_raises(d)
is_trading_day(d) == is_session(d)

\* the except-branch of next_trading_day: one day on, then skip weekends
RECURSIVE SkipWeekendFwd(_)
SkipWeekendFwd(cur) == IF weekday(cur) >= 5 THEN SkipWeekendFwd(cur + 1) ELSE cur
\* mutant: the fallback forgets to leave the current day
NextFallback_NoAdvance(cur) == SkipWeekendFwd(cur)
NextFallback(cur) == SkipWeekendFwd(cur + 1)

\* the except-branch of prev_trading_day
RECURSIVE SkipWeekendBack(_)
SkipWeekendBack(cur) == IF weekday(cur) >= 5 THEN SkipWeekendBack(cur - 1) ELSE cur
\* mutant: the fallback steps one calendar day back and keeps a weekend day
PrevFallback_NoSkip(cur) == cur - 1
PrevFallback(cur) == SkipWeekendBack(cur - 1)

\* one iteration of the while loop of next_trading_day
NextStep(cur) == IF next_session_raises(cur) THEN NextFallback(cur) ELSE next_session(cur)
\* one iteration of the while loop of prev_trading_day
PrevStep(cur) == IF previous_session_raises(cur) THEN PrevFallback(cur) ELSE previous_session(cur)

RECURSIVE next_trading_day(_, _)
next_trading_day(d, offset) ==
    IF offset <= 0 THEN d ELSE next_trading_day(NextStep(d), offset - 1)

RECURSIVE prev_trading_day(_, _)
prev_trading_day(d, offset) ==
    IF offset <= 0 THEN d ELSE prev_trading_day(PrevStep(d), offset - 1)

\* mutant: UNKNOWN is not mapped to AMC
effective_session_of_Unmapped(session) == session

\* line 165: UNKNOWN is treated as AMC
effective_session_of(session) == IF session # UNKNOWN THEN session ELSE AMC

\* mutant: the AMC branch always steps back from earnings_date
AmcT0_AlwaysPrev(earnings_date) == prev_trading_day(earnings_date, 1)

\* the AMC branch (lines 167-181)
AmcT0(earnings_date) ==
    IF is_trading_day(earnings_date) THEN earnings_date
    ELSE prev_trading_day(earnings_date, 1)

\* mutant: the BMO branch always steps on from earnings_date
BmoT1_AlwaysNext(earnings_date) == next_trading_day(earnings_date, 1)

\* the BMO branch (lines 183-198)
BmoT1(earnings_date) ==
    IF is_trading_day(earnings_date) THEN earnings_date
    ELSE next_trading_day(earnings_date, 1)

\* get_t0_t1_t2: raised is TRUE when the ValueError of is_trading_day
\* propagates to the caller (no dict is returned then)
get_t0_t1_t2(earnings_date, session) ==
    LET eff == effective_session_of(session) IN
    IF is_trading_day_raises(earnings_date)
    THEN [raised |-> TRUE, t0 |-> 0, t1 |-> 0, t2 |-> 0,
          session |-> session, effective_session |-> eff]
    ELSE IF eff = AMC
    THEN LET t0 == AmcT0(earnings_date)
             t1 == next_trading_day(t0, 1)
             t2 == next_trading_day(t1, 1)
         IN [raised |-> FALSE, t0 |-> t0, t1 |-> t1, t2 |-> t2,
             session |-> session, effective_session |-> eff]
    ELSE LET t1 == BmoT1(earnings_date)
             t0 == prev_trading_day(earnings_date, 1)
             t2 == next_trading_day(t1, 1)
         IN [raised |-> FALSE, t0 |-> t0, t1 |-> t1, t2 |-> t2,
             session |-> session, effective_session |-> eff]

\* ------------------------------------------------------------------------
\* The adapter keeps no state between calls (the schedule cache is never
\* filled: nothing calls _ensure_schedule), so one behaviour is one call.
\* Calendars the oracle can hold: every weekday between a first and a last
\* session, less at most MaxHolidays holidays
\* ------------------------------------------------------------------------
Weekdays(lo, hi) == {d \in lo..hi : weekday(d) < 5}

Calendars ==
    UNION { { Weekdays(lo, hi) \ H :
                H \in {X \in SUBSET (Weekdays(lo + 1, hi - 1)) : Cardinality(X) <= MaxHolidays} } :
            lo \in {1}, hi \in {d \in {MaxDay - 9, MaxDay - 4} : weekday(d) < 5} }

\* ------------------------------------------------------------------------
\* Phase1Pipeline: the data of one run
\* ------------------------------------------------------------------------
\* an absent number: None in a window dict, NaN in a frame (pd.isna is true
\* of both); prices are strictly positive
NaN == -1
isna(x) == x = NaN

\* the run's tickers (the first of PHASE1_TICKERS)
Symbols == {"AAPL"}

\* the earnings dates the provider can report and the dates it has bars for:
\* a Monday and the trading days after it
EventDays == 7..(6 + MaxEvents)
BarDays == 7..(8 + MaxEvents)

Bar(o, h, l, c) == [open |-> o, high |-> h, low |-> l, close |-> c, volume |-> 1000]
\* ohlcv_lookup.get(key) is None
NoBar == [open |-> NaN, high |-> NaN, low |-> NaN, close |-> NaN, volume |-> NaN]
\* the daily bars the provider can return for a (symbol, date)
Bars == {Bar(100, 101, 99, 100), Bar(105, 106, 104, 105),
         Bar(103, 106, 102, 105), Bar(103, 104, 102, 104)}

BarKeys == Symbols \X BarDays
\* a frame of daily bars, by (symbol, date); NoBar where it has no row
OhlcvFrames == [BarKeys -> Bars \cup {NoBar}]
EmptyOhlcv == [k \in BarKeys |-> NoBar]
ohlcv_empty(frame) == \A k \in BarKeys : frame[k] = NoBar

\* the events step 2 can hold: distinct (symbol, date), newest first, every
\* session unknown
Events == [symbol : Symbols, date : EventDays, session : {UNKNOWN}]
EventFrames ==
    {es \in UNION {[1..n -> Events] : n \in 0..MaxEvents} :
        /\ \A i, j \in 1..Len(es) : i < j => es[i].date >= es[j].date
        /\ \A i, j \in 1..Len(es) : i # j => <<es[i].symbol, es[i].date>> # <<es[j].symbol, es[j].date>>}

\* the calendar the pipeline constructs
PipelineCalendars == {Weekdays(1, MaxDay - 4)}

InitStats ==
    [total_earnings_events |-> 0, events_with_unknown_session |-> 0,
     missing_t0 |-> 0, missing_t1 |-> 0, missing_t2 |-> 0, complete_windows |-> 0,
     signals_generated |-> 0, events_excluded_unknown_session |-> 0,
     trades_executed |-> 0, trades_hit_target |-> 0, trade_validation_errors |-> 0]

NoExports == [event_windows |-> 0, signals |-> 0, trades |-> 0]

\* Phase1Pipeline.__init__: every data container is None
PipelineCreated ==
    /\ earnings_events = <<>>
    /\ daily_ohlcv = [loaded |-> FALSE, frame |-> EmptyOhlcv]
    /\ event_windows = [built |-> FALSE, rows |-> <<>>]
    /\ date_order_ok = TRUE
    /\ signals = [built |-> FALSE, rows |-> <<>>]
    /\ trades = [built |-> FALSE, rows |-> <<>>]
    /\ stats = InitStats
    /\ exports = NoExports

\* no pipeline is running (the calendar is called on its own)
PipelineIdle ==
    /\ pc = "idle"
    /\ calendar_defect = FALSE
    /\ PipelineCreated

NoRet == [raised |-> FALSE, value |-> 0]

CalInit ==
    /\ sessions \in Calendars
    /\ rejectsNonSession \in BOOLEAN
    /\ op = "init"
    /\ arg_d = 0
    /\ arg_offset = 0
    /\ arg_session = UNKNOWN
    /\ ret = NoRet
    /\ PipelineIdle

CallIsTradingDay ==
    /\ op = "init"
    /\ \E d \in Days :
        /\ op' = "is_trading_day"
        /\ arg_d' = d
        /\ arg_offset' = 0
        /\ arg_session' = UNKNOWN
        /\ ret' = IF is_trading_day_raises(d)
                  THEN [raised |-> TRUE, value |-> FALSE]
                  ELSE [raised |-> FALSE, value |-> is_trading_day(d)]
        /\ UNCHANGED <<calstate, pipevars>>

CallNextTradingDay ==
    /\ op = "init"
    /\ \E d \in Days, k \in 1..MaxOffset :
        /\ op' = "next_trading_day"
        /\ arg_d' = d
        /\ arg_offset' = k
        /\ arg_session' = UNKNOWN
        /\ ret' = [raised |-> FALSE, value |-> next_trading_day(d, k)]
        /\ UNCHANGED <<calstate, pipevars>>

CallPrevTradingDay ==
    /\ op = "init"
    /\ \E d \in Days, k \in 1..MaxOffset :
        /\ op' = "prev_trading_day"
        /\ arg_d' = d
        /\ arg_offset' = k
        /\ arg_session' = UNKNOWN
        /\ ret' = [raised |-> FALSE, value |-> prev_trading_day(d, k)]
        /\ UNCHANGED <<calstate, pipevars>>

CallGetT0T1T2 ==
    /\ op = "init"
    /\ \E d \in Days, s \in EarningsSession :
        /\ op' = "get_t0_t1_t2"
        /\ arg_d' = d
        /\ arg_offset' = 0
        /\ arg_session' = s
        /\ ret' = get_t0_t1_t2(d, s)
        /\ UNCHANGED <<calstate, pipevars>>

CalNext == CallIsTradingDay \/ CallNextTradingDay \/ CallPrevTradingDay \/ CallGetT0T1T2

SpecCal == CalInit /\ [][CalNext]_vars

\* ------------------------------------------------------------------------
\* Phase1Pipeline.run: steps 2 to 8 (step 1 lists the tickers)
\* ------------------------------------------------------------------------
Count(rows, P(_)) == Cardinality({i \in 1..Len(rows) : P(rows[i])})

\* every earnings date of EventDays is a session, so the oracle's treatment
\* of non-session arguments plays no part in a run
PipelineInit ==
    /\ sessions \in PipelineCalendars
    /\ rejectsNonSession = TRUE
    /\ op = "init"
    /\ arg_d = 0
    /\ arg_offset = 0
    /\ arg_session = UNKNOWN
    /\ ret = NoRet
    /\ pc = "step2"
    /\ PipelineCreated

\* _step2_fetch_earnings: the provider's past events, newest first, each
\* marked session unknown
Step2FetchEarnings ==
    /\ pc = "step2"
    /\ \E es \in EventFrames :
        /\ earnings_events' = es
        /\ stats' = [stats EXCEPT !.total_earnings_events = Len(es),
                                  !.events_with_unknown_session = Len(es)]
    /\ pc' = "step3"
    /\ UNCHANGED <<calstate, callvars, calendar_defect, daily_ohlcv, event_windows,
                   date_order_ok, signals, trades, exports>>

\* _step3_fetch_ohlcv: returns at once when there are no events
Step3FetchOhlcv ==
    /\ pc = "step3"
    /\ IF earnings_events = <<>>
       THEN UNCHANGED daily_ohlcv
       ELSE \E frame \in OhlcvFrames : daily_ohlcv' = [loaded |-> TRUE, frame |-> frame]
    /\ pc' = "step4"
    /\ UNCHANGED <<calstate, callvars, calendar_defect, earnings_events, event_windows,
                   date_order_ok, signals, trades, stats, exports>>

\* ohlcv_lookup.get((symbol, date))
Lookup(frame, symbol, d) ==
    IF <<symbol, d>> \in DOMAIN frame THEN frame[<<symbol, d>>] ELSE NoBar

\* t0_data is None (lines 244-249): the lookup found no row for the date
IsMissing(frame, symbol, d) == Lookup(frame, symbol, d) = NoBar

\* the window dict of one event (lines 251-277)
Window(event, t_dates, frame) ==
    LET t0_data == Lookup(frame, event.symbol, t_dates.t0)
        t1_data == Lookup(frame, event.symbol, t_dates.t1)
        t2_data == Lookup(frame, event.symbol, t_dates.t2)
    IN [symbol |-> event.symbol,
        earnings_date |-> event.date,
        session |-> t_dates.session,
        effective_session |-> t_dates.effective_session,
        t0_date |-> t_dates.t0,
        t1_date |-> t_dates.t1,
        t2_date |-> t_dates.t2,
        t0_open |-> t0_data.open, t0_high |-> t0_data.high, t0_low |-> t0_data.low,
        t0_close |-> t0_data.close, t0_volume |-> t0_data.volume,
        t1_open |-> t1_data.open, t1_high |-> t1_data.high, t1_low |-> t1_data.low,
        t1_close |-> t1_data.close, t1_volume |-> t1_data.volume,
        t2_open |-> t2_data.open, t2_high |-> t2_data.high, t2_low |-> t2_data.low,
        t2_close |-> t2_data.close, t2_volume |-> t2_data.volume]

\* what self.calendar.get_t0_t1_t2 can return for an event: the adapter's
\* answer, or, from a defective resolver, that answer with anchors out of order
Resolutions(event) ==
    LET good == get_t0_t1_t2(event.date, event.session) IN
    IF calendar_defect /\ ~good.raised
    THEN {good, [good EXCEPT !.t0 = good.t2, !.t2 = good.t0]}
    ELSE {good}

\* lines 282-287
DateOrderOk(rows) ==
    \A i \in 1..Len(rows) : rows[i].t0_date <= rows[i].t1_date /\ rows[i].t1_date < rows[i].t2_date

\* line 289
IsComplete(w) ==
    ~isna(w.t0_close) /\ ~isna(w.t1_close) /\ ~isna(w.t2_close) /\ ~isna(w.t2_open)

\* _step4_build_event_windows
Step4BuildEventWindows ==
    /\ pc = "step4"
    /\ IF earnings_events = <<>> \/ ohlcv_empty(daily_ohlcv.frame)
       THEN /\ pc' = "step5"
            /\ UNCHANGED <<event_windows, date_order_ok, stats>>
       ELSE \E t_dates \in [1..Len(earnings_events) -> UNION {Resolutions(e) : e \in Events}] :
            /\ \A i \in 1..Len(earnings_events) : t_dates[i] \in Resolutions(earnings_events[i])
            /\ IF \E i \in 1..Len(earnings_events) : t_dates[i].raised
               THEN /\ pc' = "raised"
                    /\ UNCHANGED <<event_windows, date_order_ok, stats>>
               ELSE LET rows == [i \in 1..Len(earnings_events) |->
                                    Window(earnings_events[i], t_dates[i], daily_ohlcv.frame)]
                    IN /\ event_windows' = [built |-> TRUE, rows |-> rows]
                       /\ date_order_ok' = DateOrderOk(rows)
                       /\ stats' = [stats EXCEPT
                              !.missing_t0 = Count(rows, LAMBDA w : IsMissing(daily_ohlcv.frame, w.symbol, w.t0_date)),
                              !.missing_t1 = Count(rows, LAMBDA w : IsMissing(daily_ohlcv.frame, w.symbol, w.t1_date)),
                              !.missing_t2 = Count(rows, LAMBDA w : IsMissing(daily_ohlcv.frame, w.symbol, w.t2_date)),
                              !.complete_windows = Count(rows, IsComplete)]
                       /\ pc' = "step5"
    /\ UNCHANGED <<calstate, callvars, calendar_defect, earnings_events, daily_ohlcv,
                   signals, trades, exports>>

\* ------------------------------------------------------------------------
\* Floats computed from prices are kept as fractions num/den with den > 0 and
\* the sign eps of the rounding error of the double (double minus fraction),
\* which decides a comparison between a double and a fraction of the same
\* value; NaN is 0/0.  A comparison with NaN is false, as in Python.
\* ------------------------------------------------------------------------
NaNF == [num |-> 0, den |-> 0, eps |-> 0]
isnaF(x) == x.den = 0
Frac(n, d) == [num |-> n, den |-> d, eps |-> 0]
\* a price as a float
PriceF(a) == IF isna(a) THEN NaNF ELSE Frac(a, 1)

\* the rounding of a / b - 1 in double arithmetic where a / b - 1 has the
\* value of a threshold: 101/100 - 1 is 0.010000000000000009 (above the
\* double 0.01), 99/100 - 1 is -0.010000000000000009, 401/400 - 1 is
\* 0.0024999999999999467 (below the double 0.0025), 399/400 - 1 is
\* -0.0024999999999999467.  No double a / b - 1 equals the double 0.01 or
\* 0.0025; any other quotient of the model's prices is away from both
\* thresholds by far more than the rounding error.
DivisionRounding(a, b) ==
    IF 100 * (a - b) = b THEN 1
    ELSE IF 100 * (a - b) = 0 - b THEN 0 - 1
    ELSE IF 400 * (a - b) = b THEN 0 - 1
    ELSE IF 400 * (a - b) = 0 - b THEN 1
    ELSE 0

\* mutant: a missing price gives a zero feature
RatioMinusOne_FillZero(a, b) ==
    IF isna(a) \/ isna(b) THEN Frac(0, 1)
    ELSE [num |-> a - b, den |-> b, eps |-> DivisionRounding(a, b)]

\* a / b - 1 on two price columns
RatioMinusOne(a, b) ==
    IF isna(a) \/ isna(b) THEN NaNF
    ELSE [num |-> a - b, den |-> b, eps |-> DivisionRounding(a, b)]
SubF(x, y) == IF isnaF(x) \/ isnaF(y) THEN NaNF ELSE Frac(x.num * y.den - y.num * x.den, x.den * y.den)
AbsF(x) == IF x.num < 0 THEN [num |-> 0 - x.num, den |-> x.den, eps |-> 0 - x.eps] ELSE x
LtF(x, y) ==
    /\ ~isnaF(x)
    /\ ~isnaF(y)
    /\ \/ x.num * y.den < y.num * x.den
       \/ x.num * y.den = y.num * x.den /\ x.eps < y.eps
GtF(x, y) == LtF(y, x)
EqF(x, y) == ~isnaF(x) /\ ~isnaF(y) /\ x.num * y.den = y.num * x.den /\ x.eps = y.eps
NegF(x) == [num |-> 0 - x.num, den |-> x.den, eps |-> 0 - x.eps]
ZeroF == Frac(0, 1)

\* line 355
r1_threshold == Frac(1, 100)
\* line 356: the default of gap2_min_abs.thresholds[0]
gap2_min == Frac(25, 10000)
\* the tolerance of the trade assertions (lines 515, 536, 557)
Tolerance == Frac(1, 10000)
\* scenarios.medium of config/execution_costs.yaml, as the QA manifest
\* states it (build_qa_bundle.py lines 245-247)
cost_scenario ==
    [spread_bps_each_side |-> 5, slippage_bps_each_side |-> 5, commission_bps_each_side |-> 10]

\* _step5_compute_features: adds the feature columns to self.event_windows
WithFeatures(w) ==
    LET R1 == RatioMinusOne(w.t1_close, w.t0_close)
        Gap2 == RatioMinusOne(w.t2_open, w.t1_close)
    IN [R1 |-> R1, Gap2 |-> Gap2, abs_R1 |-> AbsF(R1), abs_Gap2 |-> AbsF(Gap2)] @@ w

Step5ComputeFeatures ==
    /\ pc = "step5"
    /\ IF ~event_windows.built \/ event_windows.rows = <<>>
       THEN UNCHANGED <<event_windows, stats>>
       ELSE LET rows == [i \in 1..Len(event_windows.rows) |-> WithFeatures(event_windows.rows[i])]
            IN /\ event_windows' = [event_windows EXCEPT !.rows = rows]
               /\ stats' = [valid_r1_count |-> Count(rows, LAMBDA w : ~isnaF(w.R1)),
                            valid_gap2_count |-> Count(rows, LAMBDA w : ~isnaF(w.Gap2))] @@ stats
    /\ pc' = "step6"
    /\ UNCHANGED <<calstate, callvars, calendar_defect, earnings_events, daily_ohlcv,
                   date_order_ok, signals, trades, exports>>

\* line 367: effective_session is "amc" or "bmo", never "amc_assumed"
session_known(row) == row.effective_session # "amc_assumed"

\* mutant: the window is excluded only when both features are missing
NoData_NeedsBoth(row) == isnaF(row.R1) /\ isnaF(row.Gap2)

\* line 369
NoData(row) == isnaF(row.R1) \/ isnaF(row.Gap2)

\* line 372
UnknownSession(row) == ~session_known(row) /\ row.session = UNKNOWN

\* mutant: a small move is let through when the gap is large
SmallR1_UnlessBigGap(row) == LtF(row.abs_R1, r1_threshold) /\ LtF(row.abs_Gap2, gap2_min)

\* line 377
SmallR1(row) == LtF(row.abs_R1, r1_threshold)

\* mutant: the gap test uses the signed gap
SmallGap_Signed(row) == LtF(row.Gap2, gap2_min)

\* line 380
SmallGap(row) == LtF(row.abs_Gap2, gap2_min)

\* mutant: LONG whatever the direction of the gap
LongRule_AnyGap(row) == GtF(row.R1, r1_threshold)

\* line 383
LongRule(row) == GtF(row.R1, r1_threshold) /\ LtF(row.Gap2, ZeroF)

\* mutant: the SHORT branch is never taken
ShortRule_Never(row) == FALSE

\* line 388
ShortRule(row) == LtF(row.R1, NegF(r1_threshold)) /\ GtF(row.Gap2, ZeroF)

\* the if / elif chain of lines 369-396
Classify(row) ==
    IF NoData(row)
    THEN [signal |-> "EXCLUDED_NO_DATA", exclusion_reason |-> "missing R1 or Gap2"]
    ELSE IF UnknownSession(row)
    THEN [signal |-> "EXCLUDED_UNKNOWN_SESSION", exclusion_reason |-> "unknown BMO/AMC session"]
    ELSE IF SmallR1(row)
    THEN [signal |-> "NO_TRADE_SMALL_R1", exclusion_reason |-> "R1 magnitude too small"]
    ELSE IF SmallGap(row)
    THEN [signal |-> "NO_TRADE_SMALL_GAP", exclusion_reason |-> "Gap2 magnitude too small"]
    ELSE IF LongRule(row)
    THEN [signal |-> "LONG", exclusion_reason |-> "None"]
    ELSE IF ShortRule(row)
    THEN [signal |-> "SHORT", exclusion_reason |-> "None"]
    ELSE [signal |-> "NO_TRADE_SAME_DIRECTION",
          exclusion_reason |-> "Gap2 direction matches R1 direction"]

\* mutant: the target is the close of T2
TargetPrice_T2Close(row) == row.t2_close

\* line 399
TargetPrice(row) == row.t1_close
\* line 400
EntryPrice(row) == row.t2_open

\* the signal dict of one window (lines 398-437); event_idx is 0-based
Signal(idx, row) ==
    LET c == Classify(row) IN
    [event_idx |-> idx - 1,
     symbol |-> row.symbol,
     earnings_date |-> row.earnings_date,
     session |-> row.session,
     effective_session |-> row.effective_session,
     t0_date |-> row.t0_date, t1_date |-> row.t1_date, t2_date |-> row.t2_date,
     t0_close |-> row.t0_close, t1_close |-> row.t1_close, t2_open |-> row.t2_open,
     R1 |-> row.R1, Gap2 |-> row.Gap2,
     signal |-> c.signal,
     exclusion_reason |-> c.exclusion_reason,
     target_price |-> TargetPrice(row),
     entry_price |-> EntryPrice(row),
     t2_high |-> row.t2_high, t2_low |-> row.t2_low, t2_close |-> row.t2_close]

\* mutant: only LONG signals are traded
IsTradeable_LongOnly(sig) == sig.signal = "LONG"

\* lines 443 and 482
IsTradeable(sig) == sig.signal \in {"LONG", "SHORT"}

\* _step6_generate_signals
Step6GenerateSignals ==
    /\ pc = "step6"
    /\ IF ~event_windows.built \/ event_windows.rows = <<>>
       THEN UNCHANGED <<signals, stats>>
       ELSE LET rows == [i \in 1..Len(event_windows.rows) |-> Signal(i, event_windows.rows[i])]
            IN /\ signals' = [built |-> TRUE, rows |-> rows]
               /\ stats' = [stats EXCEPT
                      !.signals_generated = Count(rows, IsTradeable),
                      !.events_excluded_unknown_session =
                          Count(rows, LAMBDA g : g.signal = "EXCLUDED_UNKNOWN_SESSION")]
    /\ pc' = "step7"
    /\ UNCHANGED <<calstate, callvars, calendar_defect, earnings_events, daily_ohlcv,
                   event_windows, date_order_ok, trades, exports>>

\* mutant: the cost of one side only
total_cost_bps_OneSide ==
    cost_scenario.spread_bps_each_side + cost_scenario.slippage_bps_each_side
        + cost_scenario.commission_bps_each_side

\* lines 490-495
total_cost_bps ==
    (cost_scenario.spread_bps_each_side + cost_scenario.slippage_bps_each_side
        + cost_scenario.commission_bps_each_side) * 2

\* line 511: a tradeable signal without entry or target is skipped
IsSimulated(sig) == IsTradeable(sig) /\ ~(isna(sig.entry_price) \/ isna(sig.target_price))

\* mutant: the hit test looks at the close of T2
HitTarget_ByClose(sig) ==
    IF sig.signal = "LONG"
    THEN IF ~isna(sig.t2_close) THEN sig.t2_close >= sig.target_price ELSE FALSE
    ELSE IF ~isna(sig.t2_close) THEN sig.t2_close <= sig.target_price ELSE FALSE

\* lines 520-524 and 542-545
HitTarget(sig) ==
    IF sig.signal = "LONG"
    THEN IF ~isna(sig.t2_high) THEN sig.t2_high >= sig.target_price ELSE FALSE
    ELSE IF ~isna(sig.t2_low) THEN sig.t2_low <= sig.target_price ELSE FALSE

\* mutant: a trade that missed is closed at the target all the same
ExitOnMiss_AtTarget(sig) == sig.target_price

\* lines 528 and 549: the exit of a trade that missed its target
ExitOnMiss(sig) == IF ~isna(sig.t2_close) THEN sig.t2_close ELSE sig.entry_price

\* mutant: the exit is the close of T2 also after a hit
ExitPrice_AlwaysClose(sig) ==
    IF ~isna(sig.t2_close) THEN sig.t2_close ELSE sig.entry_price

\* lines 525-528 and 546-549
ExitPrice(sig) ==
    IF HitTarget(sig) THEN sig.target_price ELSE ExitOnMiss(sig)

\* mutant: the return of a SHORT is computed as that of a LONG
GrossReturn_Unsigned(sig) == Frac(ExitPrice(sig) - sig.entry_price, sig.entry_price)

\* lines 531 and 552
GrossReturn(sig) ==
    IF sig.signal = "LONG"
    THEN Frac(ExitPrice(sig) - sig.entry_price, sig.entry_price)
    ELSE Frac(sig.entry_price - ExitPrice(sig), sig.entry_price)

\* lines 535 and 556
ExpectedReturn(sig) ==
    IF sig.signal = "LONG"
    THEN Frac(sig.target_price - sig.entry_price, sig.entry_price)
    ELSE Frac(sig.entry_price - sig.target_price, sig.entry_price)

\* the trade dict of one simulated signal (lines 564-589)
Trade(sig) ==
    [symbol |-> sig.symbol,
     earnings_date |-> sig.earnings_date,
     session |-> sig.session,
     effective_session |-> sig.effective_session,
     t0_date |-> sig.t0_date, t1_date |-> sig.t1_date, t2_date |-> sig.t2_date,
     signal |-> sig.signal,
     R1 |-> sig.R1, Gap2 |-> sig.Gap2,
     t0_close |-> sig.t0_close,
     t1_close |-> sig.t1_close,
     entry_price |-> sig.entry_price,
     target_price |-> sig.target_price,
     exit_price |-> ExitPrice(sig),
     t2_high |-> sig.t2_high, t2_low |-> sig.t2_low, t2_close |-> sig.t2_close,
     hit_target |-> HitTarget(sig),
     gross_return |-> GrossReturn(sig),
     cost_bps |-> total_cost_bps,
     net_return |-> SubF(GrossReturn(sig), Frac(total_cost_bps, 10000))]

\* assertion 1 (lines 515-518)
TargetMismatch(sig) ==
    GtF(AbsF(SubF(PriceF(sig.target_price), PriceF(sig.t1_close))), Tolerance)
\* assertions 2 and 3 (lines 534-540, 555-561)
ReturnMismatch(sig) ==
    HitTarget(sig) /\ GtF(AbsF(SubF(GrossReturn(sig), ExpectedReturn(sig))), Tolerance)

\* _step7_simulate_trades: validation errors are counted and printed, the
\* trades are kept
Step7SimulateTrades ==
    /\ pc = "step7"
    /\ IF ~signals.built \/ signals.rows = <<>>
       THEN UNCHANGED <<trades, stats>>
       ELSE IF SelectSeq(signals.rows, IsTradeable) = <<>>
       THEN /\ trades' = [built |-> TRUE, rows |-> <<>>]
            /\ UNCHANGED stats
       ELSE LET simulated == SelectSeq(signals.rows, IsSimulated)
                rows == [i \in 1..Len(simulated) |-> Trade(simulated[i])]
                errors == Count(simulated, TargetMismatch) + Count(simulated, ReturnMismatch)
            IN /\ trades' = [built |-> TRUE, rows |-> rows]
               /\ stats' = [stats EXCEPT
                      !.trade_validation_errors = errors,
                      !.trades_executed = IF rows # <<>> THEN Len(rows) ELSE @,
                      !.trades_hit_target =
                          IF rows # <<>> THEN Count(rows, LAMBDA t : t.hit_target) ELSE @]
    /\ pc' = "step8"
    /\ UNCHANGED <<calstate, callvars, calendar_defect, earnings_events, daily_ohlcv,
                   event_windows, date_order_ok, signals, exports>>

\* _step8_export_csvs: a frame that is None or empty is not written
Step8ExportCsvs ==
    /\ pc = "step8"
    /\ exports' = [event_windows |-> Len(event_windows.rows),
                   signals |-> Len(signals.rows),
                   trades |-> Len(trades.rows)]
    /\ pc' = "done"
    /\ UNCHANGED <<calstate, callvars, calendar_defect, earnings_events, daily_ohlcv,
                   event_windows, date_order_ok, signals, trades, stats>>

Next ==
    \/ Step2FetchEarnings
    \/ Step3FetchOhlcv
    \/ Step4BuildEventWindows
    \/ Step5ComputeFeatures
    \/ Step6GenerateSignals
    \/ Step7SimulateTrades
    \/ Step8ExportCsvs

\* the pipeline with the TradingCalendar adapter
Init == PipelineInit /\ calendar_defect = FALSE
Spec == Init /\ [][Next]_vars

\* the pipeline with a resolver that can return anchors out of order: the
\* defect the date-order validation of step 4 is there to catch
InitDefectiveCalendar == PipelineInit /\ calendar_defect = TRUE
SpecDefectiveCalendar == InitDefectiveCalendar /\ [][Next]_vars

\* ------------------------------------------------------------------------
\* Steps 5 to 8 as functions of the window table: self.event_windows holds
\* the window of one event of any session (BMO and AMC included, which step 2
\* never produces) over prices placed around the two thresholds; a field of
\* the T2 bar can be missing on its own.
\* ------------------------------------------------------------------------
Prices == {396, 399, 400, 401, 404}
FlatBar(c) == Bar(c, c, c, c)
T0Bars == {NoBar} \cup {FlatBar(c) : c \in {396, 400}}
T1Bars == {NoBar} \cup {FlatBar(c) : c \in {396, 400, 401, 404}}
T2Bars ==
    {NoBar} \cup
    {b \in [open : Prices, high : {NaN, 400, 401, 404}, low : {NaN, 396, 399, 400},
            close : {NaN, 396, 400, 404}, volume : {1000}] :
        /\ isna(b.high) \/ (b.high >= b.open /\ b.high >= b.close)
        /\ isna(b.low) \/ (b.low <= b.open /\ (isna(b.close) \/ b.low <= b.close))}

WindowEventDay == 8

InitWindows ==
    /\ sessions \in PipelineCalendars
    /\ rejectsNonSession = TRUE
    /\ op = "init"
    /\ arg_d = 0
    /\ arg_offset = 0
    /\ arg_session = UNKNOWN
    /\ ret = NoRet
    /\ pc = "step5"
    /\ calendar_defect = FALSE
    /\ \E session \in EarningsSession, b0 \in T0Bars, b1 \in T1Bars, b2 \in T2Bars :
       \E t_dates \in {get_t0_t1_t2(WindowEventDay, session)} :
       \E frame \in {(<<"AAPL", t_dates.t0>> :> b0) @@ (<<"AAPL", t_dates.t1>> :> b1)
                        @@ (<<"AAPL", t_dates.t2>> :> b2)} :
       \E event \in {[symbol |-> "AAPL", date |-> WindowEventDay, session |-> session]} :
       \E rows \in {<<Window(event, t_dates, frame)>>} :
          /\ earnings_events = <<event>>
          /\ daily_ohlcv = [loaded |-> TRUE, frame |-> frame]
          /\ event_windows = [built |-> TRUE, rows |-> rows]
          /\ date_order_ok = DateOrderOk(rows)
          /\ stats = [InitStats EXCEPT
                 !.total_earnings_events = 1,
                 !.events_with_unknown_session = IF session = UNKNOWN THEN 1 ELSE 0,
                 !.missing_t0 = Count(rows, LAMBDA w : IsMissing(frame, w.symbol, w.t0_date)),
                 !.missing_t1 = Count(rows, LAMBDA w : IsMissing(frame, w.symbol, w.t1_date)),
                 !.missing_t2 = Count(rows, LAMBDA w : IsMissing(frame, w.symbol, w.t2_date)),
                 !.complete_windows = Count(rows, IsComplete)]
    /\ signals = [built |-> FALSE, rows |-> <<>>]
    /\ trades = [built |-> FALSE, rows |-> <<>>]
    /\ exports = NoExports

NextWindows ==
    \/ Step5ComputeFeatures
    \/ Step6GenerateSignals
    \/ Step7SimulateTrades
    \/ Step8ExportCsvs

SpecWindows == InitWindows /\ [][NextWindows]_vars

\* ------------------------------------------------------------------------
\* Steps 7 and 8 as functions of the signals table: self.signals holds the
\* signal row of one window, with a target_price that need not be the
\* window's t1_close (the defect assertion 1 of step 7 looks for).
\* ------------------------------------------------------------------------
SignalTargets == {396, 400, 404}
CompleteT2Bars ==
    {b \in T2Bars : ~isna(b.open) /\ ~isna(b.high) /\ ~isna(b.low) /\ ~isna(b.close)}

InitDefectiveSignals ==
    /\ sessions \in PipelineCalendars
    /\ rejectsNonSession = TRUE
    /\ op = "init"
    /\ arg_d = 0
    /\ arg_offset = 0
    /\ arg_session = UNKNOWN
    /\ ret = NoRet
    /\ pc = "step7"
    /\ calendar_defect = FALSE
    /\ \E b0 \in T0Bars, b1 \in T1Bars, b2 \in CompleteT2Bars, target \in SignalTargets :
       \E t_dates \in {get_t0_t1_t2(WindowEventDay, UNKNOWN)} :
       \E frame \in {(<<"AAPL", t_dates.t0>> :> b0) @@ (<<"AAPL", t_dates.t1>> :> b1)
                        @@ (<<"AAPL", t_dates.t2>> :> b2)} :
       \E event \in {[symbol |-> "AAPL", date |-> WindowEventDay, session |-> UNKNOWN]} :
       \E w \in {WithFeatures(Window(event, t_dates, frame))} :
       \E g \in {[Signal(1, w) EXCEPT !.target_price = target]} :
          /\ earnings_events = <<event>>
          /\ daily_ohlcv = [loaded |-> TRUE, frame |-> frame]
          /\ event_windows = [built |-> TRUE, rows |-> <<w>>]
          /\ date_order_ok = DateOrderOk(<<w>>)
          /\ signals = [built |-> TRUE, rows |-> <<g>>]
          /\ stats = [valid_r1_count |-> Count(<<w>>, LAMBDA x : ~isnaF(x.R1)),
                      valid_gap2_count |-> Count(<<w>>, LAMBDA x : ~isnaF(x.Gap2))] @@
                     [InitStats EXCEPT
                        !.total_earnings_events = 1,
                        !.events_with_unknown_session = 1,
                        !.missing_t0 = Count(<<w>>, LAMBDA x : IsMissing(frame, x.symbol, x.t0_date)),
                        !.missing_t1 = Count(<<w>>, LAMBDA x : IsMissing(frame, x.symbol, x.t1_date)),
                        !.missing_t2 = Count(<<w>>, LAMBDA x : IsMissing(frame, x.symbol, x.t2_date)),
                        !.complete_windows = Count(<<w>>, IsComplete),
                        !.signals_generated = Count(<<g>>, IsTradeable)]
    /\ trades = [built |-> FALSE, rows |-> <<>>]
    /\ exports = NoExports

NextTrades ==
    \/ Step7SimulateTrades
    \/ Step8ExportCsvs

SpecDefectiveSignals == InitDefectiveSignals /\ [][NextTrades]_vars

\* ------------------------------------------------------------------------
\* Reference notions for the calendar properties: a trading day is a session
\* of the oracle inside its bounds and a weekday outside them (section 4.1's
\* weekday-only approximation); the next / previous trading day is the
\* nearest such day, found by search and not by the adapter's loops.
\* ------------------------------------------------------------------------
RefTradingDay(d) == IF date_oob(d) THEN weekday(d) < 5 ELSE d \in sessions
RefNext(d) == Min({e \in (d + 1)..(d + MaxDay + 8) : RefTradingDay(e)})
RefPrev(d) == Max({e \in (d - MaxDay - 8)..(d - 1) : RefTradingDay(e)})

Resolved == op = "get_t0_t1_t2" /\ ~ret.raised
Anchors(r) == <<r.t0, r.t1, r.t2>>

\* C1: for every earnings_date and session, the anchors returned by
\* get_t0_t1_t2 satisfy t0 <= t1 < t2 and each of t0, t1, t2 is a trading
\* day under the adapter's is_trading_day.
C1_AnchorsAreOrderedTradingDays ==
    Resolved =>
        /\ ret.t0 <= ret.t1
        /\ ret.t1 < ret.t2
        /\ \A t \in {ret.t0, ret.t1, ret.t2} : ~is_trading_day_raises(t) /\ is_trading_day(t)

\* C2: an event whose effective session is AMC and whose earnings_date is a
\* trading day gets t0 = earnings_date, t1 = the next trading day after t0
\* and t2 = the next trading day after t1.
C2_AmcOnTradingDay ==
    (op = "get_t0_t1_t2" /\ arg_session \in {AMC, UNKNOWN}
        /\ ~date_oob(arg_d) /\ arg_d \in sessions) =>
        /\ ~ret.raised
        /\ ret.t0 = arg_d
        /\ ret.t1 = RefNext(ret.t0)
        /\ ret.t2 = RefNext(ret.t1)

\* C2 witness: an AMC event on a trading day whose t1 is not the next
\* calendar day (a weekend or a holiday lies between t0 and t1)
C2_Witness ==
    /\ Resolved
    /\ arg_session = AMC
    /\ arg_d \in sessions
    /\ ret.t0 = arg_d
    /\ ret.t1 > ret.t0 + 1

\* C3: a BMO event whose earnings_date is a trading day gets
\* t1 = earnings_date, t0 = the previous trading day before earnings_date
\* and t2 = the next trading day after t1.
C3_BmoOnTradingDay ==
    (op = "get_t0_t1_t2" /\ arg_session = BMO
        /\ ~date_oob(arg_d) /\ arg_d \in sessions) =>
        /\ ~ret.raised
        /\ ret.t1 = arg_d
        /\ ret.t0 = RefPrev(arg_d)
        /\ ret.t2 = RefNext(ret.t1)

\* C3 witness: a BMO event on a trading day whose t0 is not the calendar day
\* before it
C3_Witness ==
    /\ Resolved
    /\ arg_session = BMO
    /\ arg_d \in sessions
    /\ ret.t1 = arg_d
    /\ ret.t0 < arg_d - 1

\* C4: for an earnings_date that is not a trading day (weekend or holiday),
\* under both effective sessions, t0 is the latest trading day strictly before
\* earnings_date and t1 the earliest trading day strictly after it, so BMO
\* and AMC resolution give the same (t0, t1, t2).
C4_NonTradingDayBracketed ==
    (op = "get_t0_t1_t2" /\ ~date_oob(arg_d) /\ arg_d \notin sessions) =>
        /\ ~ret.raised
        /\ ret.t0 = RefPrev(arg_d)
        /\ ret.t1 = RefNext(arg_d)
        /\ Anchors(ret) = Anchors(get_t0_t1_t2(arg_d, BMO))
        /\ Anchors(ret) = Anchors(get_t0_t1_t2(arg_d, AMC))

\* C5: session UNKNOWN resolves exactly as session AMC does, reports
\* effective_session = amc and keeps the requested session (unknown) in the
\* output; for BMO and AMC the effective session is the requested one.
C5_UnknownResolvesAsAmc ==
    op = "get_t0_t1_t2" =>
        /\ ret.session = arg_session
        /\ arg_session = UNKNOWN =>
              /\ ret.effective_session = AMC
              /\ ret.raised = get_t0_t1_t2(arg_d, AMC).raised
              /\ Anchors(ret) = Anchors(get_t0_t1_t2(arg_d, AMC))
        /\ arg_session \in {BMO, AMC} => ret.effective_session = arg_session

\* C5 witness: an UNKNOWN event resolved on a day where the AMC and the BMO
\* anchors differ
C5_Witness ==
    /\ Resolved
    /\ arg_session = UNKNOWN
    /\ ret.effective_session = AMC
    /\ Anchors(ret) # Anchors(get_t0_t1_t2(arg_d, BMO))

\* C6: next_trading_day(d, k+1) is strictly later than next_trading_day(d, k),
\* which is strictly later than d; prev_trading_day(d, k+1) is strictly
\* earlier than prev_trading_day(d, k), which is strictly earlier than d;
\* whether a step is answered by the oracle or by the weekday fallback.
C6_OffsetsStrictlyMonotonic ==
    /\ op = "next_trading_day" =>
          /\ ret.value > arg_d
          /\ next_trading_day(arg_d, arg_offset + 1) > ret.value
    /\ op = "prev_trading_day" =>
          /\ ret.value < arg_d
          /\ prev_trading_day(arg_d, arg_offset + 1) < ret.value

\* C6 witness: a two-step prev_trading_day whose first step is answered by
\* the oracle and whose second step by the weekday fallback
C6_Witness ==
    /\ op = "prev_trading_day"
    /\ arg_offset = 2
    /\ ~previous_session_raises(arg_d)
    /\ previous_session_raises(PrevStep(arg_d))
    /\ ret.value < PrevStep(arg_d)

\* ------------------------------------------------------------------------
\* Pipeline properties
\* ------------------------------------------------------------------------
AfterStep4 == pc \in {"step5", "step6", "step7", "step8", "done"}
AfterStep5 == pc \in {"step6", "step7", "step8", "done"}
AfterStep6 == pc \in {"step7", "step8", "done"}

\* the bar the provider returned for an anchor of event i, NoBar if none
AnchorBar(i, d) == Lookup(daily_ohlcv.frame, earnings_events[i].symbol, d)

\* C7: the window-building stage emits exactly one event window per input
\* earnings event whatever bars are missing (none, some or all, also when
\* there is no bar for any event at all): it does not raise, it skips no
\* event, and the OHLCV fields of a missing anchor are absent.
C7_OneWindowPerEvent ==
    (AfterStep4 \/ pc = "raised") =>
        /\ pc # "raised"
        /\ Len(event_windows.rows) = Len(earnings_events)
        /\ \A i \in 1..Len(event_windows.rows) :
              LET w == event_windows.rows[i] IN
              /\ w.symbol = earnings_events[i].symbol
              /\ w.earnings_date = earnings_events[i].date
              /\ AnchorBar(i, w.t0_date) = NoBar =>
                    isna(w.t0_open) /\ isna(w.t0_high) /\ isna(w.t0_low)
                        /\ isna(w.t0_close) /\ isna(w.t0_volume)
              /\ AnchorBar(i, w.t1_date) = NoBar =>
                    isna(w.t1_open) /\ isna(w.t1_high) /\ isna(w.t1_low)
                        /\ isna(w.t1_close) /\ isna(w.t1_volume)
              /\ AnchorBar(i, w.t2_date) = NoBar =>
                    isna(w.t2_open) /\ isna(w.t2_high) /\ isna(w.t2_low)
                        /\ isna(w.t2_close) /\ isna(w.t2_volume)

C10_NoDataFirst ==
    (AfterStep6 /\ signals.built) =>
        /\ Len(signals.rows) = Len(event_windows.rows)
        /\ \A i \in 1..Len(signals.rows) :
              LET w == event_windows.rows[i]
                  g == signals.rows[i]
              IN /\ g.event_idx = i - 1
                 /\ g.signal = "EXCLUDED_NO_DATA" <=> (isnaF(w.R1) \/ isnaF(w.Gap2))
        /\ pc = "done" =>
              /\ exports.event_windows = Len(event_windows.rows)
              /\ exports.signals = Len(signals.rows)

\* C10 witness: a finished run in which a window of an unknown-session event
\* lacks only Gap2, is classified EXCLUDED_NO_DATA and is exported next to a
\* window with both features
C10_Witness ==
    /\ pc = "done"
    /\ exports.signals = 2
    /\ \E i, j \in 1..Len(signals.rows) :
          /\ signals.rows[i].signal = "EXCLUDED_NO_DATA"
          /\ signals.rows[i].session = UNKNOWN
          /\ ~isnaF(event_windows.rows[i].R1) /\ isnaF(event_windows.rows[i].Gap2)
          /\ signals.rows[j].signal # "EXCLUDED_NO_DATA"

\* ------------------------------------------------------------------------
\* Signal and trade properties
\* ------------------------------------------------------------------------
AfterStep7 == pc \in {"step8", "done"}
Present(w) == ~isnaF(w.R1) /\ ~isnaF(w.Gap2)
KnownSession(w) == w.session \in {BMO, AMC}
SameEvent(a, b) == a.symbol = b.symbol /\ a.earnings_date = b.earnings_date
SignalRows == 1..Len(signals.rows)
TradeRows == 1..Len(trades.rows)

\* C11: every window whose R1 and Gap2 are both present and whose original
\* session is UNKNOWN is classified EXCLUDED_UNKNOWN_SESSION, whatever the
\* values of R1 and Gap2 and although its effective_session is amc.
C11_UnknownSessionExcluded ==
    (AfterStep6 /\ signals.built) =>
        \A i \in SignalRows :
            LET w == event_windows.rows[i] IN
            (Present(w) /\ w.session = UNKNOWN) =>
                /\ w.effective_session = AMC
                /\ signals.rows[i].signal = "EXCLUDED_UNKNOWN_SESSION"

\* C12: events with unknown session are excluded from the backtest: no LONG
\* or SHORT signal and no row of the trades table belongs to an event whose
\* session is unknown.
C12_UnknownSessionNotTraded ==
    /\ \A i \in SignalRows :
          signals.rows[i].session = UNKNOWN => signals.rows[i].signal \notin {"LONG", "SHORT"}
    /\ \A k \in TradeRows : trades.rows[k].session # UNKNOWN

\* C13: every window with R1 and Gap2 present, a known session (BMO or AMC)
\* and abs_R1 < r1_threshold is classified NO_TRADE_SMALL_R1 and produces no
\* trade, regardless of the sign and magnitude of Gap2.
C13_SmallR1NoTrade ==
    (AfterStep6 /\ signals.built) =>
        \A i \in SignalRows :
            LET w == event_windows.rows[i] IN
            (Present(w) /\ KnownSession(w) /\ LtF(w.abs_R1, r1_threshold)) =>
                /\ signals.rows[i].signal = "NO_TRADE_SMALL_R1"
                /\ \A k \in TradeRows : ~SameEvent(trades.rows[k], w)

\* C13 witness: a finished run over a BMO window with R1 = +0.25% and a gap
\* of more than 1% against it: NO_TRADE_SMALL_R1 and an empty trades table
C13_Witness ==
    /\ pc = "done"
    /\ trades.built
    /\ trades.rows = <<>>
    /\ \E i \in SignalRows :
          LET w == event_windows.rows[i] IN
          /\ w.session = BMO
          /\ GtF(w.R1, ZeroF) /\ LtF(w.abs_R1, r1_threshold)
          /\ LtF(w.Gap2, NegF(r1_threshold))
          /\ signals.rows[i].signal = "NO_TRADE_SMALL_R1"

\* C14: a window with R1 and Gap2 present and a known session is classified
\* NO_TRADE_SMALL_GAP if and only if abs_R1 >= r1_threshold and
\* abs_Gap2 < gap2_min; when both magnitudes are below their thresholds the
\* classification is NO_TRADE_SMALL_R1 (first match wins).
C14_SmallGapIff ==
    (AfterStep6 /\ signals.built) =>
        \A i \in SignalRows :
            LET w == event_windows.rows[i]
                g == signals.rows[i]
            IN (Present(w) /\ KnownSession(w)) =>
                /\ g.signal = "NO_TRADE_SMALL_GAP" <=>
                      (~LtF(w.abs_R1, r1_threshold) /\ LtF(w.abs_Gap2, gap2_min))
                /\ (LtF(w.abs_R1, r1_threshold) /\ LtF(w.abs_Gap2, gap2_min)) =>
                      g.signal = "NO_TRADE_SMALL_R1"

\* C14 witness: an AMC window with a move of more than 1% and a non-zero gap
\* below gap2_min, classified NO_TRADE_SMALL_GAP
C14_Witness ==
    /\ AfterStep6
    /\ \E i \in SignalRows :
          LET w == event_windows.rows[i] IN
          /\ w.session = AMC
          /\ GtF(w.abs_R1, r1_threshold)
          /\ GtF(w.abs_Gap2, ZeroF) /\ LtF(w.abs_Gap2, gap2_min)
          /\ signals.rows[i].signal = "NO_TRADE_SMALL_GAP"

C16_SameDirection ==
    (AfterStep6 /\ signals.built) =>
        \A i \in SignalRows :
            LET w == event_windows.rows[i]
                g == signals.rows[i]
            IN g.signal = "NO_TRADE_SAME_DIRECTION" =>
                /\ \/ GtF(w.R1, ZeroF) /\ GtF(w.Gap2, ZeroF)
                   \/ LtF(w.R1, ZeroF) /\ LtF(w.Gap2, ZeroF)
                /\ g.exclusion_reason = "Gap2 direction matches R1 direction"

\* C16 witness: a window that rose by more than 1% and then gapped up by 1%
\* (400 -> 404), classified NO_TRADE_SAME_DIRECTION
C16_Witness ==
    /\ AfterStep6
    /\ \E i \in SignalRows :
          LET w == event_windows.rows[i] IN
          /\ signals.rows[i].signal = "NO_TRADE_SAME_DIRECTION"
          /\ GtF(w.R1, r1_threshold)
          /\ w.t1_close = 400 /\ w.t2_open = 404

\* C17: for every signal row, whatever its classification, target_price
\* equals the window's t1_close and entry_price equals the window's t2_open,
\* with absence preserved.
C17_TargetAndEntryRecorded ==
    (AfterStep6 /\ signals.built) =>
        \A i \in SignalRows :
            LET w == event_windows.rows[i]
                g == signals.rows[i]
            IN /\ g.target_price = w.t1_close
               /\ g.entry_price = w.t2_open
               /\ isna(g.target_price) <=> isna(w.t1_close)
               /\ isna(g.entry_price) <=> isna(w.t2_open)

\* C17 witness: an EXCLUDED_NO_DATA row whose T1 bar is missing: the target
\* is absent, the entry is the T2 open, and the T2 close is there
C17_Witness ==
    /\ AfterStep6
    /\ \E i \in SignalRows :
          LET g == signals.rows[i] IN
          /\ g.signal = "EXCLUDED_NO_DATA"
          /\ isna(g.target_price)
          /\ ~isna(g.entry_price)
          /\ ~isna(g.t2_close)

\* C18: the trades table is in one-to-one correspondence with the LONG/SHORT
\* signals: a trade is created only for a signal classified LONG or SHORT
\* with non-absent entry and target prices, and every LONG or SHORT signal
\* yields exactly one trade.
C18_TradesMatchSignals ==
    AfterStep7 =>
        /\ \A k \in TradeRows :
              LET t == trades.rows[k] IN
              /\ ~isna(t.entry_price)
              /\ ~isna(t.target_price)
              /\ \E i \in SignalRows :
                    /\ SameEvent(signals.rows[i], t)
                    /\ signals.rows[i].signal \in {"LONG", "SHORT"}
                    /\ signals.rows[i].signal = t.signal
        /\ \A i \in SignalRows :
              signals.rows[i].signal \in {"LONG", "SHORT"} =>
                  Cardinality({k \in TradeRows : SameEvent(trades.rows[k], signals.rows[i])}) = 1
        /\ Len(trades.rows) =
              Cardinality({i \in SignalRows : signals.rows[i].signal \in {"LONG", "SHORT"}})

\* C18 witness: a finished run with two signals, a SHORT one and one that is
\* not tradeable, and a trades table of one row
C18_Witness ==
    /\ pc = "done"
    /\ Len(signals.rows) = 2
    /\ Len(trades.rows) = 1
    /\ trades.rows[1].signal = "SHORT"
    /\ \E i \in SignalRows : signals.rows[i].signal \notin {"LONG", "SHORT"}

\* C19: for every simulated trade, hit_target is true exactly when the T2
\* intraday extreme reaches the target: for LONG iff t2_high >= target_price,
\* for SHORT iff t2_low <= target_price; an exact touch is a hit and the T2
\* close plays no part.
C19_HitByIntradayExtreme ==
    AfterStep7 =>
        \A k \in TradeRows :
            LET t == trades.rows[k] IN
            /\ t.signal = "LONG" =>
                  (t.hit_target <=> (~isna(t.t2_high) /\ t.t2_high >= t.target_price))
            /\ t.signal = "SHORT" =>
                  (t.hit_target <=> (~isna(t.t2_low) /\ t.t2_low <= t.target_price))

\* C19 witness: a LONG trade whose T2 high touches the target exactly while
\* the T2 close stays below it, recorded as a hit
C19_Witness ==
    /\ AfterStep7
    /\ \E k \in TradeRows :
          LET t == trades.rows[k] IN
          /\ t.signal = "LONG"
          /\ t.t2_high = t.target_price
          /\ ~isna(t.t2_close) /\ t.t2_close < t.target_price
          /\ t.hit_target

CompleteT2(t) ==
    /\ ~isna(t.t2_high) /\ ~isna(t.t2_low) /\ ~isna(t.t2_close)
    /\ t.t2_low <= t.entry_price /\ t.entry_price <= t.t2_high
    /\ t.t2_low <= t.t2_close /\ t.t2_close <= t.t2_high

\* C21: for every trade with hit_target false, exit_price equals t2_close,
\* and gross_return equals (t2_close - entry)/entry for LONG and
\* (entry - t2_close)/entry for SHORT.
C21_MissExitsAtClose ==
    AfterStep7 =>
        \A k \in TradeRows :
            LET t == trades.rows[k] IN
            ~t.hit_target =>
                /\ t.exit_price = t.t2_close
                /\ t.signal = "LONG" =>
                      t.gross_return.num * t.entry_price
                          = (t.t2_close - t.entry_price) * t.gross_return.den
                /\ t.signal = "SHORT" =>
                      t.gross_return.num * t.entry_price
                          = (t.entry_price - t.t2_close) * t.gross_return.den

C23_RoundTripCostIs20 ==
    (/\ cost_scenario.spread_bps_each_side = 5
     /\ cost_scenario.slippage_bps_each_side = 5
     /\ cost_scenario.commission_bps_each_side = 10) =>
        \A k \in TradeRows : trades.rows[k].cost_bps = 20

C26_OracleFailureNotPropagated ==
    /\ op \in {"is_trading_day", "next_trading_day", "prev_trading_day", "get_t0_t1_t2"} =>
          ~ret.raised
    /\ (op = "is_trading_day" /\ date_oob(arg_d)) => ret.value = (weekday(arg_d) < 5)

\* the dates the loop of next_trading_day / prev_trading_day goes through
RECURSIVE NextPath(_, _)
NextPath(d, k) == IF k <= 0 THEN <<d>> ELSE <<d>> \o NextPath(NextStep(d), k - 1)
RECURSIVE PrevPath(_, _)
PrevPath(d, k) == IF k <= 0 THEN <<d>> ELSE <<d>> \o PrevPath(PrevStep(d), k - 1)
WeekdayAfter(d) == Min({e \in (d + 1)..(d + 3) : weekday(e) < 5})
WeekdayBefore(d) == Max({e \in (d - 3)..(d - 1) : weekday(e) < 5})

\* C27: in next_trading_day and prev_trading_day, each step for which the
\* oracle query fails is replaced by a weekday-only step: its result is the
\* nearest calendar day strictly after (before) the current date that is
\* Monday to Friday, it counts as one session toward the offset, the loop
\* ends after exactly offset steps, and a fallback step never returns a
\* Saturday or Sunday.
C27_FallbackIsWeekdayStep ==
    /\ op = "next_trading_day" =>
          LET path == NextPath(arg_d, arg_offset) IN
          /\ Len(path) = arg_offset + 1
          /\ ret.value = path[Len(path)]
          /\ \A i \in 1..arg_offset :
                next_session_raises(path[i]) =>
                    /\ path[i + 1] = WeekdayAfter(path[i])
                    /\ weekday(path[i + 1]) < 5
    /\ op = "prev_trading_day" =>
          LET path == PrevPath(arg_d, arg_offset) IN
          /\ Len(path) = arg_offset + 1
          /\ ret.value = path[Len(path)]
          /\ \A i \in 1..arg_offset :
                previous_session_raises(path[i]) =>
                    /\ path[i + 1] = WeekdayBefore(path[i])
                    /\ weekday(path[i + 1]) < 5

\* C27 witness: prev_trading_day by one step from a Monday for which the
\* oracle fails: the fallback crosses the weekend to the Friday
C27_Witness ==
    /\ op = "prev_trading_day"
    /\ arg_offset = 1
    /\ weekday(arg_d) = 0
    /\ previous_session_raises(arg_d)
    /\ ret.value = arg_d - 3

\* C28: no pipeline stage mutates an earlier stage's output in place: once
\* the event-window table is built, the feature, signal and trade stages
\* leave it unchanged, and the trade stage leaves the signals table unchanged.
C28_NoStageMutatesEarlierOutput ==
    [][/\ event_windows.built => event_windows' = event_windows
       /\ signals.built => signals' = signals]_vars

\* C29: for every earnings_date and session resolved within the oracle's
\* covered range, t0, t1, t2 are three consecutive trading sessions: t0 < t1,
\* no trading day lies strictly between t0 and t1 or between t1 and t2, and
\* t0 <= earnings_date <= t1.
C29_ConsecutiveSessions ==
    (Resolved /\ \A d \in {arg_d, ret.t0, ret.t1, ret.t2} : ~date_oob(d)) =>
        /\ {ret.t0, ret.t1, ret.t2} \subseteq sessions
        /\ ret.t0 < ret.t1
        /\ ret.t1 < ret.t2
        /\ \A d \in sessions : ~(ret.t0 < d /\ d < ret.t1) /\ ~(ret.t1 < d /\ d < ret.t2)
        /\ ret.t0 <= arg_d
        /\ arg_d <= ret.t1

====
